---- MODULE Spec2Model ----
(***************************************************************************)
(* Model of the journal server's semantic-retrieval pipeline:              *)
(*   - the entries table and the SQL statements that touch its vector      *)
(*     columns (db/queries/entries.sql),                                   *)
(*   - vectorservice.VectorService: Start / Stop / updateVectors,          *)
(*   - the HTTP handlers CreateEntry, UpdateEntry, DeleteEntry and Chat.   *)
(***************************************************************************)
EXTENDS Integers, Sequences, FiniteSets, TLC

\* ------------------------------------------------------------------ bounds
MaxNotes == 2        \* rows of the entries table
MaxTime  == 3        \* readings of the database clock
MaxBatch == 2        \* largest batchSize handed to New
MaxCalls == 4        \* Start()/Stop() calls issued by the callers
MaxAfter == 2        \* cap of the ticks-after-cancel counter
MaxToks  == 2        \* comma-separated tokens in a generated model reply
MaxReloads == 2      \* Reload() calls made on the running server

\* ------------------------------------------------------------ value sets
NULL       == <<>>          \* SQL NULL / Go nil; a present value v is <<v>>
Some(v)    == <<v>>
Notes      == 1..MaxNotes
testUserID == "02a0aa58"
Users      == {testUserID, "other"}
Titles     == {"", "t"}
Bodies     == {"a", "b"}
Callers    == {"c1", "c2"}
MaxGo      == (MaxCalls + 1) \div 2
Slots      == 1..MaxGo
Gs         == {"init", "loop"} \X Slots

VARIABLES
  entries,      \* the entries table, one row per note id
  now,          \* the database clock read by NOW() / CURRENT_TIMESTAMP
  batchSize,    \* VectorService.batchSize
  mu,           \* VectorService.mu is locked
  running,      \* VectorService.running
  stopCh,       \* VectorService.stopCh: "open" or "closed"
  ctxDone,      \* the context handed to Start has been cancelled
  panicked,     \* a goroutine panicked (close of closed channel)
  callPc,       \* position of each caller inside Start / Stop
  callSlot,     \* the goroutine pair a caller inside Start is about to launch
  callsLeft,    \* Start/Stop calls the callers may still issue
  startCalls,   \* history: Start calls issued so far
  gPc,          \* position of each goroutine launched by Start
  ticker,       \* per ticker loop: "none", "idle", "fired" (a tick is buffered), "stopped"
  cyc,          \* locals of updateVectors per goroutine: entries, index, embedding
  pendingEdit,  \* history: note's text edited since a cycle last fetched it
  failed,       \* history: note's Embed or vector write failed since the last fetch
  ticksAfter,   \* history: per loop, ticks it took after the context was cancelled
  req,          \* the in-flight UpdateEntry request
  chat,         \* the in-flight Chat request
  found,        \* what the last SearchSimilarEntries call returned
  parse,        \* a model reply under citation parsing: its parts, then the outcome
  app,          \* the AppResources struct: its RWMutex and the fields Reload swaps
  res,          \* the objects the fields point to: pools, contexts, vector services
  reload,       \* the goroutine SaveConfig starts to run Reload
  hnd           \* per route closure: the handler it is building

dbVars   == <<entries, now>>
svcVars  == <<batchSize, mu, running, stopCh, ctxDone, panicked>>
callVars == <<callPc, callSlot, callsLeft, startCalls>>
goVars   == <<gPc, ticker, cyc, ticksAfter>>
httpVars == <<req, chat, found, parse>>
appVars  == <<app, res, reload, hnd>>
vars     == <<entries, now, batchSize, mu, running, stopCh, ctxDone, panicked,
              callPc, callSlot, callsLeft, startCalls, gPc, ticker, cyc, pendingEdit, failed,
              ticksAfter, req, chat, found, parse, app, res, reload, hnd>>

\* ------------------------------------------------------- the entries table
\* 000001_init_schema.up.sql + the vector migration: a fresh row has
\* archived = FALSE and both vector columns NULL.
NoRow ==
  [exists |-> FALSE, user_id |-> testUserID, archived |-> FALSE,
   title |-> "", body_text |-> "a", updated_at |-> 0,
   embedding_vector |-> NULL, vectors_updated_at |-> NULL]

NewRow(u, t, b, at) ==
  [exists |-> TRUE, user_id |-> u, archived |-> FALSE,
   title |-> t, body_text |-> b, updated_at |-> at,
   embedding_vector |-> NULL, vectors_updated_at |-> NULL]

\* prepareTextForEmbedding
prepareTextForEmbedding(title, bodyText) ==
  IF title # "" THEN title \o "\n\n" \o bodyText ELSE bodyText

\* ollama GenerateEmbedding on success: the vector the model returns for a text
GenerateEmbedding(text) == "vec:" \o text

\* a WHERE clause without the archived = false condition
NeedsVectorArchivedToo(e, userID) ==
  /\ e.exists
  /\ e.user_id = userID
  /\ \/ e.embedding_vector = NULL
     \/ e.vectors_updated_at = NULL
     \/ (e.vectors_updated_at # NULL /\ e.updated_at > e.vectors_updated_at[1])

\* WHERE clause of GetEntriesNeedingVectors
NeedsVector(e, userID) ==
  /\ e.exists
  /\ e.user_id = userID
  /\ e.archived = FALSE
  /\ \/ e.embedding_vector = NULL
     \/ e.vectors_updated_at = NULL
     \/ (e.vectors_updated_at # NULL /\ e.updated_at > e.vectors_updated_at[1])

Min(a, b) == IF a < b THEN a ELSE b

\* the orderings a statement without ORDER BY allows
OrderedAny(S, tbl) ==
  { s \in [1..Cardinality(S) -> S] :
      \A i, j \in 1..Cardinality(S) : i # j => s[i] # s[j] }

\* all orderings of a set of ids that ORDER BY updated_at DESC allows
OrderedDesc(S, tbl) ==
  { s \in [1..Cardinality(S) -> S] :
      /\ \A i, j \in 1..Cardinality(S) : i # j => s[i] # s[j]
      /\ \A i, j \in 1..Cardinality(S) :
           i < j => tbl[s[i]].updated_at >= tbl[s[j]].updated_at }

RowOf(tbl, n) ==
  [id |-> n, title |-> tbl[n].title, body_text |-> tbl[n].body_text,
   updated_at |-> tbl[n].updated_at]

\* a statement without the LIMIT clause
GetEntriesNeedingVectorsNoLimit(tbl, userID, limit) ==
  LET S == { n \in Notes : NeedsVector(tbl[n], userID) }
  IN  { [i \in 1..Cardinality(S) |-> RowOf(tbl, s[i])] : s \in OrderedDesc(S, tbl) }

\* GetEntriesNeedingVectors: the result sets the statement may return
GetEntriesNeedingVectors(tbl, userID, limit) ==
  LET S == { n \in Notes : NeedsVector(tbl[n], userID) }
  IN  { [i \in 1..Min(limit, Cardinality(S)) |-> RowOf(tbl, s[i])] :
          s \in OrderedDesc(S, tbl) }

\* an UPDATE that sets the vector but not the timestamp
UpdateEntryVectorOnly(tbl, id, vec, at) ==
  [tbl EXCEPT ![id].embedding_vector = Some(vec)]

\* UpdateEntryVector
UpdateEntryVector(tbl, id, vec, at) ==
  [tbl EXCEPT ![id].embedding_vector = Some(vec),
              ![id].vectors_updated_at = Some(at)]

\* UpdateEntry (the SQL statement): no row when the note is archived
UpdateEntrySQL(tbl, id, t, b, at) ==
  IF tbl[id].exists /\ ~tbl[id].archived
  THEN [tbl EXCEPT ![id].title = t, ![id].body_text = b, ![id].updated_at = at]
  ELSE tbl

\* a soft delete that also drops the vector
SoftDeleteEntryDropsVector(tbl, id, at) ==
  IF tbl[id].exists
  THEN [tbl EXCEPT ![id].archived = TRUE, ![id].updated_at = at,
                   ![id].embedding_vector = NULL]
  ELSE tbl

\* SoftDeleteEntry
SoftDeleteEntry(tbl, id, at) ==
  IF tbl[id].exists
  THEN [tbl EXCEPT ![id].archived = TRUE, ![id].updated_at = at]
  ELSE tbl

\* NOW() / CURRENT_TIMESTAMP of the next statement: the clock has moved on
\* since the previous statement
Stamp == now + 1

\* outcomes of a statement that writes a timestamp: it fails, or (while the
\* clock has readings left) succeeds
StmtOk == IF now < MaxTime THEN BOOLEAN ELSE {FALSE}

\* outcomes of a call made with the scheduler's context
CtxOk == IF ctxDone THEN {FALSE} ELSE BOOLEAN

NoCyc == [batch |-> <<>>, i |-> 0, vec |-> NULL]

\* ------------------------------------------------- VectorService.Start
SlotUsed(s) ==
  \/ gPc[<<"init", s>>] # "none"
  \/ \E c \in Callers : callSlot[c] = s

FreeSlot == CHOOSE s \in Slots : ~SlotUsed(s) /\ \A t \in Slots : t < s => SlotUsed(t)

\* a caller enters Start and reaches s.mu.Lock()
CallStart(c) ==
  /\ ~panicked
  /\ callPc[c] = "idle"
  /\ callsLeft > 0
  /\ callsLeft' = callsLeft - 1
  /\ startCalls' = startCalls + 1
  /\ callPc' = [callPc EXCEPT ![c] = "StartLock"]
  /\ UNCHANGED <<dbVars, svcVars, callSlot, goVars, pendingEdit, failed, httpVars, appVars>>

\* s.mu.Lock() in Start
StartLock(c) ==
  /\ ~panicked
  /\ callPc[c] = "StartLock"
  /\ ~mu
  /\ mu' = TRUE
  /\ callPc' = [callPc EXCEPT ![c] = "StartLocked"]
  /\ UNCHANGED <<dbVars, batchSize, running, stopCh, ctxDone, panicked,
                 callSlot, callsLeft, startCalls, goVars, pendingEdit, failed, httpVars, appVars>>

\* a Start that does not look at s.running
StartCheckAlways(c) ==
  /\ ~panicked
  /\ callPc[c] = "StartLocked"
  /\ mu' = FALSE
  /\ running' = TRUE
  /\ callSlot' = [callSlot EXCEPT ![c] = FreeSlot]
  /\ callPc' = [callPc EXCEPT ![c] = "StartGoInit"]
  /\ UNCHANGED <<dbVars, batchSize, stopCh, ctxDone, panicked, callsLeft,
                 startCalls, goVars, pendingEdit, failed, httpVars, appVars>>

\* if s.running { unlock; return }; s.running = true; unlock
StartCheck(c) ==
  /\ ~panicked
  /\ callPc[c] = "StartLocked"
  /\ mu' = FALSE
  /\ IF running
     THEN /\ callPc' = [callPc EXCEPT ![c] = "idle"]
          /\ UNCHANGED <<running, callSlot>>
     ELSE /\ running' = TRUE
          /\ callSlot' = [callSlot EXCEPT ![c] = FreeSlot]
          /\ callPc' = [callPc EXCEPT ![c] = "StartGoInit"]
  /\ UNCHANGED <<dbVars, batchSize, stopCh, ctxDone, panicked, callsLeft,
                 startCalls, goVars, pendingEdit, failed, httpVars, appVars>>

\* go s.updateVectors(ctx)
StartGoInit(c) ==
  /\ ~panicked
  /\ callPc[c] = "StartGoInit"
  /\ gPc' = [gPc EXCEPT ![<<"init", callSlot[c]>>] = "lock"]
  /\ callPc' = [callPc EXCEPT ![c] = "StartGoLoop"]
  /\ UNCHANGED <<dbVars, svcVars, callSlot, callsLeft, startCalls, ticker, cyc, ticksAfter,
                 pendingEdit, failed, httpVars, appVars>>

\* ticker := time.NewTicker(...); go func() { for { select ... } }(); return
StartGoLoop(c) ==
  /\ ~panicked
  /\ callPc[c] = "StartGoLoop"
  /\ ticker' = [ticker EXCEPT ![callSlot[c]] = "idle"]
  /\ gPc' = [gPc EXCEPT ![<<"loop", callSlot[c]>>] = "select"]
  /\ callPc' = [callPc EXCEPT ![c] = "idle"]
  /\ callSlot' = [callSlot EXCEPT ![c] = 0]
  /\ UNCHANGED <<dbVars, svcVars, callsLeft, startCalls, cyc, ticksAfter, pendingEdit, failed, httpVars, appVars>>

\* -------------------------------------------------- VectorService.Stop
CallStop(c) ==
  /\ ~panicked
  /\ callPc[c] = "idle"
  /\ callsLeft > 0
  /\ callsLeft' = callsLeft - 1
  /\ callPc' = [callPc EXCEPT ![c] = "StopLock"]
  /\ UNCHANGED <<dbVars, svcVars, callSlot, startCalls, goVars, pendingEdit, failed, httpVars, appVars>>

\* s.mu.Lock() in Stop
StopLock(c) ==
  /\ ~panicked
  /\ callPc[c] = "StopLock"
  /\ ~mu
  /\ mu' = TRUE
  /\ callPc' = [callPc EXCEPT ![c] = "StopLocked"]
  /\ UNCHANGED <<dbVars, batchSize, running, stopCh, ctxDone, panicked,
                 callSlot, callsLeft, startCalls, goVars, pendingEdit, failed, httpVars, appVars>>

\* if !s.running { return }; close(s.stopCh); s.running = false; deferred unlock
StopBody(c) ==
  /\ ~panicked
  /\ callPc[c] = "StopLocked"
  /\ mu' = FALSE
  /\ IF ~running
     THEN /\ callPc' = [callPc EXCEPT ![c] = "idle"]
          /\ UNCHANGED <<running, stopCh, panicked>>
     ELSE IF stopCh = "closed"
     THEN /\ panicked' = TRUE          \* close of closed channel
          /\ callPc' = [callPc EXCEPT ![c] = "panicked"]
          /\ UNCHANGED <<running, stopCh>>
     ELSE /\ stopCh' = "closed"
          /\ running' = FALSE
          /\ callPc' = [callPc EXCEPT ![c] = "idle"]
          /\ UNCHANGED panicked
  /\ UNCHANGED <<dbVars, batchSize, ctxDone, callSlot, callsLeft, startCalls,
                 goVars, pendingEdit, failed, httpVars, appVars>>

\* ------------------------------------------- the ticker loop of Start
\* the runtime delivers a tick into ticker.C (capacity 1; a tick that finds
\* the channel full is dropped)
TickerFire(s) ==
  /\ ~panicked
  /\ ticker[s] = "idle"
  /\ ticker' = [ticker EXCEPT ![s] = "fired"]
  /\ UNCHANGED <<dbVars, svcVars, callVars, gPc, cyc, ticksAfter, pendingEdit, failed, httpVars, appVars>>

\* case <-ticker.C: s.updateVectors(ctx)
LoopSelectTick(s) ==
  /\ ~panicked
  /\ gPc[<<"loop", s>>] = "select"
  /\ ticker[s] = "fired"
  /\ ticker' = [ticker EXCEPT ![s] = "idle"]
  /\ gPc' = [gPc EXCEPT ![<<"loop", s>>] = "lock"]
  /\ ticksAfter' = IF ctxDone
                    THEN [ticksAfter EXCEPT ![s] = Min(@ + 1, MaxAfter)]
                    ELSE ticksAfter
  /\ UNCHANGED <<dbVars, svcVars, callVars, cyc, pendingEdit, failed, httpVars, appVars>>

\* case <-s.stopCh: ticker.Stop(); return
LoopSelectStop(s) ==
  /\ ~panicked
  /\ gPc[<<"loop", s>>] = "select"
  /\ stopCh = "closed"
  /\ ticker' = [ticker EXCEPT ![s] = "stopped"]
  /\ gPc' = [gPc EXCEPT ![<<"loop", s>>] = "done"]
  /\ UNCHANGED <<dbVars, svcVars, callVars, cyc, ticksAfter, pendingEdit, failed, httpVars, appVars>>

\* the owner of the context cancels it
CancelCtx ==
  /\ ~panicked
  /\ ~ctxDone
  /\ ctxDone' = TRUE
  /\ UNCHANGED <<dbVars, batchSize, mu, running, stopCh, panicked, callVars,
                 goVars, pendingEdit, failed, httpVars, appVars>>

\* --------------------------------------- VectorService.updateVectors
\* where a goroutine goes when updateVectors returns
AfterCycle(g) == IF g[1] = "init" THEN "done" ELSE "select"

InCycle(g) == gPc[g] \in {"fetch", "embed", "write"}

\* a Lock that does not wait for the mutex to be free
LockNoWait(g) ==
  /\ ~panicked
  /\ gPc[g] = "lock"
  /\ mu' = TRUE
  /\ gPc' = [gPc EXCEPT ![g] = "fetch"]
  /\ UNCHANGED <<dbVars, batchSize, running, stopCh, ctxDone, panicked, callVars,
                 ticker, cyc, ticksAfter, pendingEdit, failed, httpVars, appVars>>

\* s.mu.Lock() at the top of updateVectors
Lock(g) ==
  /\ ~panicked
  /\ gPc[g] = "lock"
  /\ ~mu
  /\ mu' = TRUE
  /\ gPc' = [gPc EXCEPT ![g] = "fetch"]
  /\ UNCHANGED <<dbVars, batchSize, running, stopCh, ctxDone, panicked, callVars,
                 ticker, cyc, ticksAfter, pendingEdit, failed, httpVars, appVars>>

\* return from updateVectors: the deferred s.mu.Unlock() runs
Return(g) ==
  /\ mu' = FALSE
  /\ gPc' = [gPc EXCEPT ![g] = AfterCycle(g)]
  /\ cyc' = [cyc EXCEPT ![g] = NoCyc]

\* entries, err := GetEntriesNeedingVectors(...); return on error or on
\* an empty result
Fetch(g) ==
  /\ ~panicked
  /\ gPc[g] = "fetch"
  /\ \E ok \in CtxOk :
       IF ~ok
       THEN Return(g) /\ UNCHANGED <<pendingEdit, failed>>
       ELSE \E rows \in GetEntriesNeedingVectors(entries, testUserID, batchSize) :
              /\ pendingEdit' = [n \in Notes |->
                     IF \E k \in 1..Len(rows) : rows[k].id = n
                     THEN FALSE ELSE pendingEdit[n]]
              /\ failed' = [n \in Notes |-> FALSE]
              /\ IF Len(rows) = 0
                 THEN Return(g)
                 ELSE /\ cyc' = [cyc EXCEPT ![g] = [batch |-> rows, i |-> 1, vec |-> NULL]]
                      /\ gPc' = [gPc EXCEPT ![g] = "embed"]
                      /\ UNCHANGED mu
  /\ UNCHANGED <<dbVars, batchSize, running, stopCh, ctxDone, panicked, callVars,
                 ticker, ticksAfter, httpVars, appVars>>

\* a loop that returns where the code says `continue`
ContinueAborts(g) == Return(g)

\* `continue` / end of the range loop
Continue(g) ==
  IF cyc[g].i < Len(cyc[g].batch)
  THEN /\ cyc' = [cyc EXCEPT ![g].i = @ + 1, ![g].vec = NULL]
       /\ gPc' = [gPc EXCEPT ![g] = "embed"]
       /\ UNCHANGED mu
  ELSE Return(g)

\* text := prepareTextForEmbedding(...); embedding, err := GenerateEmbedding(ctx, text)
Embed(g) ==
  /\ ~panicked
  /\ gPc[g] = "embed"
  /\ LET entry == cyc[g].batch[cyc[g].i]
         text  == prepareTextForEmbedding(entry.title, entry.body_text)
     IN  \E ok \in CtxOk :
           IF ok
           THEN /\ cyc' = [cyc EXCEPT ![g].vec = Some(GenerateEmbedding(text))]
                /\ gPc' = [gPc EXCEPT ![g] = "write"]
                /\ UNCHANGED <<mu, failed>>
           ELSE /\ Continue(g)
                /\ failed' = [failed EXCEPT ![entry.id] = TRUE]
  /\ UNCHANGED <<dbVars, batchSize, running, stopCh, ctxDone, panicked, callVars,
                 ticker, ticksAfter, pendingEdit, httpVars, appVars>>

\* err = UpdateEntryVector(ctx, {ID: entry.ID, EmbeddingVector: &vec})
Write(g) ==
  /\ ~panicked
  /\ gPc[g] = "write"
  /\ LET entry == cyc[g].batch[cyc[g].i]
     IN  \E ok \in CtxOk \cap StmtOk :
           /\ entries' = IF ok
                         THEN UpdateEntryVector(entries, entry.id, cyc[g].vec[1], Stamp)
                         ELSE entries
           /\ now' = IF ok THEN Stamp ELSE now
           /\ failed' = IF ok THEN failed ELSE [failed EXCEPT ![entry.id] = TRUE]
           /\ Continue(g)
  /\ UNCHANGED <<batchSize, running, stopCh, ctxDone, panicked, callVars,
                 ticker, ticksAfter, pendingEdit, httpVars, appVars>>

\* ------------------------------------------------------- HTTP handlers
Reqs == {"r1"}
Idle == [pc |-> "idle"]

\* Handler.CreateEntry: INSERT INTO entries (...) RETURNING *
CreateEntry(n, u, t, b) ==
  /\ ~panicked
  /\ ~entries[n].exists
  /\ \A m \in Notes : m < n => entries[m].exists
  /\ \E ok \in StmtOk :
       /\ entries' = IF ok THEN [entries EXCEPT ![n] = NewRow(u, t, b, Stamp)] ELSE entries
       /\ now' = IF ok THEN Stamp ELSE now
  /\ UNCHANGED <<svcVars, callVars, goVars, pendingEdit, failed, httpVars, appVars>>

\* a SELECT without the archived = false condition
GetEntryArchivedToo(tbl, id) ==
  IF tbl[id].exists THEN Some(tbl[id]) ELSE NULL

\* GetEntry: SELECT * FROM entries WHERE id = $1 AND archived = false
GetEntry(tbl, id) ==
  IF tbl[id].exists /\ ~tbl[id].archived THEN Some(tbl[id]) ELSE NULL

\* Handler.UpdateEntry, first half: bind the request, GetEntry, merge the
\* supplied fields over the existing ones (404 when GetEntry finds nothing)
UpdateEntryGet(r, id, rt, rb) ==
  /\ ~panicked
  /\ req[r].pc = "idle"
  /\ LET existing == GetEntry(entries, id)
     IN  /\ existing # NULL
         /\ req' = [req EXCEPT ![r] =
               [pc |-> "update", id |-> id, reqTitle |-> rt, reqBodyText |-> rb,
                title |-> IF rt # NULL THEN rt[1] ELSE existing[1].title,
                bodyText |-> IF rb # NULL THEN rb[1] ELSE existing[1].body_text]]
  /\ UNCHANGED <<dbVars, svcVars, callVars, goVars, pendingEdit, failed, chat, found, parse, appVars>>

\* Handler.UpdateEntry, second half: the UPDATE statement
UpdateEntry(r) ==
  /\ ~panicked
  /\ req[r].pc = "update"
  /\ LET id == req[r].id
     IN  \E ok \in StmtOk :
           /\ entries' = IF ok
                         THEN UpdateEntrySQL(entries, id, req[r].title, req[r].bodyText, Stamp)
                         ELSE entries
           /\ now' = IF ok THEN Stamp ELSE now
           /\ pendingEdit' = IF ok /\ ~entries[id].archived
                                   /\ (entries[id].title # req[r].title
                                        \/ entries[id].body_text # req[r].bodyText)
                             THEN [pendingEdit EXCEPT ![id] = TRUE]
                             ELSE pendingEdit
  /\ req' = [req EXCEPT ![r] = Idle]
  /\ UNCHANGED <<svcVars, callVars, goVars, failed, chat, found, parse, appVars>>

\* Handler.DeleteEntry: SoftDeleteEntry
DeleteEntry(id) ==
  /\ ~panicked
  /\ entries[id].exists
  /\ \E ok \in StmtOk :
       /\ entries' = IF ok THEN SoftDeleteEntry(entries, id, Stamp) ELSE entries
       /\ now' = IF ok THEN Stamp ELSE now
  /\ UNCHANGED <<svcVars, callVars, goVars, pendingEdit, failed, httpVars, appVars>>

\* ------------------------------------------------- strings of Handler.Chat
\* The model's reply is a sequence of one-character strings.
Marker == <<"C", "I", "T", "A", "T", "I", "O", "N", "S", ":">>
None   == <<"n", "o", "n", "e">>

MatchAt(s, sep, k) ==
  /\ k + Len(sep) - 1 <= Len(s)
  /\ s[k] = sep[1]
  /\ SubSeq(s, k, k + Len(sep) - 1) = sep

RECURSIVE IndexFrom(_, _, _)
\* the first occurrence of sep in s at or after position k; 0 when none
IndexFrom(s, sep, k) ==
  IF k + Len(sep) - 1 > Len(s) THEN 0
  ELSE IF MatchAt(s, sep, k) THEN k
  ELSE IndexFrom(s, sep, k + 1)

\* strings.Index, 1-based; 0 when sep does not occur
Index(s, sep) == IndexFrom(s, sep, 1)

RECURSIVE Split(_, _)
\* strings.Split
Split(s, sep) ==
  LET k == Index(s, sep)
  IN  IF k = 0
      THEN <<s>>
      ELSE <<SubSeq(s, 1, k - 1)>> \o Split(SubSeq(s, k + Len(sep), Len(s)), sep)

IsSpace(c) == c \in {" ", "\n", "\t", "\r"}

RECURSIVE TrimLeft(_)
TrimLeft(s) == IF s # <<>> /\ IsSpace(Head(s)) THEN TrimLeft(Tail(s)) ELSE s

RECURSIVE TrimRight(_)
TrimRight(s) ==
  IF s # <<>> /\ IsSpace(s[Len(s)]) THEN TrimRight(SubSeq(s, 1, Len(s) - 1)) ELSE s

\* strings.TrimSpace
TrimSpace(s) == TrimRight(TrimLeft(s))

Digits == <<"0", "1", "2", "3", "4", "5", "6", "7", "8", "9">>
IsDigit(c) == \E d \in 1..10 : Digits[d] = c
DigitVal(c) == (CHOOSE d \in 1..10 : Digits[d] = c) - 1

RECURSIVE DecVal(_)
DecVal(s) == IF s = <<>> THEN 0 ELSE 10 * DecVal(SubSeq(s, 1, Len(s) - 1)) + DigitVal(s[Len(s)])

\* strconv.Atoi: NULL on a syntax error, otherwise <<n>>
Atoi(s) ==
  LET body == IF s # <<>> /\ Head(s) \in {"+", "-"} THEN Tail(s) ELSE s
  IN  IF body = <<>> \/ \E k \in 1..Len(body) : ~IsDigit(body[k])
      THEN NULL
      ELSE IF s # <<>> /\ Head(s) = "-" THEN Some(0 - DecVal(body)) ELSE Some(DecVal(body))

RECURSIVE CitedOfNoLowerBound(_, _)
\* a loop that checks num <= len(similarEntries) only
CitedOfNoLowerBound(citationParts, n) ==
  IF citationParts = <<>>
  THEN <<>>
  ELSE LET num == Atoi(TrimSpace(Head(citationParts)))
       IN  (IF num # NULL /\ num[1] <= n THEN <<num[1] - 1>> ELSE <<>>)
           \o CitedOfNoLowerBound(Tail(citationParts), n)

RECURSIVE CitedOf(_, _)
\* the loop over citationParts: the 0-based indices it appends
CitedOf(citationParts, n) ==
  IF citationParts = <<>>
  THEN <<>>
  ELSE LET num == Atoi(TrimSpace(Head(citationParts)))
       IN  (IF num # NULL /\ num[1] > 0 /\ num[1] <= n THEN <<num[1] - 1>> ELSE <<>>)
           \o CitedOf(Tail(citationParts), n)

\* a parser that trims the reply also when it carries no marker
ParseCitationsTrimAlways(llmResponse, n) ==
  LET parts == Split(llmResponse, Marker)
  IN  IF Len(parts) = 2
      THEN LET citationsStr == TrimSpace(parts[2])
           IN  [actualResponse |-> TrimSpace(parts[1]),
                citedIndices |->
                  IF citationsStr # None /\ citationsStr # <<>>
                  THEN CitedOf(Split(citationsStr, <<",">>), n)
                  ELSE <<>>]
      ELSE [actualResponse |-> TrimSpace(llmResponse), citedIndices |-> <<>>]

\* "Parse citations from LLM response": [actualResponse, citedIndices]
ParseCitations(llmResponse, n) ==
  LET parts == Split(llmResponse, Marker)
  IN  IF Len(parts) = 2
      THEN LET citationsStr == TrimSpace(parts[2])
           IN  [actualResponse |-> TrimSpace(parts[1]),
                citedIndices |->
                  IF citationsStr # None /\ citationsStr # <<>>
                  THEN CitedOf(Split(citationsStr, <<",">>), n)
                  ELSE <<>>]
      ELSE [actualResponse |-> llmResponse, citedIndices |-> <<>>]

\* ------------------------------------------------------- Handler.Chat
ChatTopK == 5
Messages == {"a"}
Ok == <<"o", "k">>
\* what the model may reply: no marker, one marker with ordinals, "none",
\* tokens that do not parse or are out of range, two markers
Responses ==
  { Ok,
    Ok \o <<"\n">> \o Marker \o <<" ", "1">>,
    Ok \o <<" ">> \o Marker \o <<" ", "2", ",", "1">>,
    Ok \o <<"\n">> \o Marker \o <<" ">> \o None,
    Ok \o <<" ">> \o Marker \o <<" ", "9", ",", "x", ",", " ", "1">>,
    Ok \o <<" ">> \o Marker \o <<" ", "1", " ">> \o Marker \o <<" ", "2">> }

Abs(x) == IF x < 0 THEN 0 - x ELSE x

\* embedding_vector <-> $2: the distance of a stored vector to the query vector
Distance(v, q) == IF v = q THEN 0 ELSE 1 + Abs(Len(v) - Len(q))

\* a WHERE clause without the archived = false condition
HasVectorArchivedToo(e, userID) ==
  /\ e.exists
  /\ e.user_id = userID
  /\ e.embedding_vector # NULL

\* WHERE clause of SearchSimilarEntries
HasVector(e, userID) ==
  /\ e.exists
  /\ e.user_id = userID
  /\ e.archived = FALSE
  /\ e.embedding_vector # NULL

\* all orderings of a set of ids that ORDER BY embedding_vector <-> q allows
OrderedByDistance(S, tbl, q) ==
  { s \in [1..Cardinality(S) -> S] :
      /\ \A i, j \in 1..Cardinality(S) : i # j => s[i] # s[j]
      /\ \A i, j \in 1..Cardinality(S) :
           i < j => Distance(tbl[s[i]].embedding_vector[1], q)
                      <= Distance(tbl[s[j]].embedding_vector[1], q) }

\* SearchSimilarEntries (the SQL statement): the result sets it may return
SearchSimilarEntriesSQL(tbl, userID, q, limit) ==
  LET S == { n \in Notes : HasVector(tbl[n], userID) }
  IN  { [i \in 1..Min(limit, Cardinality(S)) |->
           [id |-> s[i], distance |-> Distance(tbl[s[i]].embedding_vector[1], q)]] :
          s \in OrderedByDistance(S, tbl, q) }

\* VectorService.SearchSimilarEntries(ctx, userID, query, limit): embed the
\* query, run the statement; (nil, err) when either step fails
SearchSimilarEntries(userID, query, limit) ==
  /\ ~panicked
  /\ \E embOk, dbOk \in BOOLEAN :
       IF embOk /\ dbOk
       THEN \E rows \in SearchSimilarEntriesSQL(entries, userID,
                                                GenerateEmbedding(query), limit) :
              found' = Some([userID |-> userID, query |-> query, limit |-> limit,
                             err |-> FALSE, results |-> rows])
       ELSE found' = Some([userID |-> userID, query |-> query, limit |-> limit,
                           err |-> TRUE, results |-> <<>>])
  /\ UNCHANGED <<dbVars, svcVars, callVars, goVars, pendingEdit, failed, req, chat, parse, appVars>>

\* a handler that answers 500 when the similarity statement fails
ChatSearchFailFast(msg) ==
  /\ ~panicked
  /\ chat.pc = "idle"
  /\ \E embOk, dbOk \in BOOLEAN :
       IF ~embOk
       THEN chat' = [pc |-> "llm", searchErr |-> "embed", similarEntries |-> <<>>]
       ELSE IF ~dbOk
       THEN chat' = [pc |-> "done", status |-> 500, searchErr |-> "query",
                     llmErr |-> FALSE]
       ELSE \E rows \in SearchSimilarEntriesSQL(entries, testUserID,
                                                GenerateEmbedding(msg), ChatTopK) :
              chat' = [pc |-> "llm", searchErr |-> "none", similarEntries |-> rows]
  /\ UNCHANGED <<dbVars, svcVars, callVars, goVars, pendingEdit, failed, req, found, parse, appVars>>

\* similarEntries, err := h.vectorService.SearchSimilarEntries(ctx, testUserID,
\* req.Message, 5); on an error (the query embedding or the statement failed)
\* similarEntries = nil and the handler goes on
ChatSearch(msg) ==
  /\ ~panicked
  /\ chat.pc = "idle"
  /\ \E embOk, dbOk \in BOOLEAN :
       IF ~embOk
       THEN chat' = [pc |-> "llm", searchErr |-> "embed", similarEntries |-> <<>>]
       ELSE IF ~dbOk
       THEN chat' = [pc |-> "llm", searchErr |-> "query", similarEntries |-> <<>>]
       ELSE \E rows \in SearchSimilarEntriesSQL(entries, testUserID,
                                                GenerateEmbedding(msg), ChatTopK) :
              chat' = [pc |-> "llm", searchErr |-> "none", similarEntries |-> rows]
  /\ UNCHANGED <<dbVars, svcVars, callVars, goVars, pendingEdit, failed, req, found, parse, appVars>>

\* a handler that answers 500 when the reply carries no citation marker
ChatCompleteStrict ==
  /\ ~panicked
  /\ chat.pc = "llm"
  /\ \E ok \in BOOLEAN :
       IF ~ok
       THEN chat' = [pc |-> "done", status |-> 500, searchErr |-> chat.searchErr,
                     llmErr |-> TRUE]
       ELSE \E llmResponse \in Responses :
              LET p == ParseCitations(llmResponse, Len(chat.similarEntries))
              IN  IF Index(llmResponse, Marker) = 0
                  THEN chat' = [pc |-> "done", status |-> 500,
                                searchErr |-> chat.searchErr, llmErr |-> FALSE]
                  ELSE chat' = [pc |-> "resolve", searchErr |-> chat.searchErr,
                                similarEntries |-> chat.similarEntries,
                                actualResponse |-> p.actualResponse,
                                citedIndices |-> p.citedIndices,
                                k |-> 1, sourceEntries |-> <<>>]
  /\ UNCHANGED <<dbVars, svcVars, callVars, goVars, pendingEdit, failed, req, found, parse, appVars>>

\* ollamaClient.Chat, then the citation parsing (500 when the call fails)
ChatComplete ==
  /\ ~panicked
  /\ chat.pc = "llm"
  /\ \E ok \in BOOLEAN :
       IF ~ok
       THEN chat' = [pc |-> "done", status |-> 500, searchErr |-> chat.searchErr,
                     llmErr |-> TRUE]
       ELSE \E llmResponse \in Responses :
              LET p == ParseCitations(llmResponse, Len(chat.similarEntries))
              IN  chat' = [pc |-> "resolve", searchErr |-> chat.searchErr,
                           similarEntries |-> chat.similarEntries,
                           actualResponse |-> p.actualResponse,
                           citedIndices |-> p.citedIndices,
                           k |-> 1, sourceEntries |-> <<>>]
  /\ UNCHANGED <<dbVars, svcVars, callVars, goVars, pendingEdit, failed, req, found, parse, appVars>>

\* one iteration of "for _, idx := range citedIndices": GetEntry, skip on error
ChatResolve ==
  /\ ~panicked
  /\ chat.pc = "resolve"
  /\ chat.k <= Len(chat.citedIndices)
  /\ LET entry == chat.similarEntries[chat.citedIndices[chat.k] + 1]
         fullEntry == GetEntry(entries, entry.id)
     IN  \E ok \in BOOLEAN :
           chat' = [chat EXCEPT !.k = @ + 1,
                                !.sourceEntries =
                                   IF ok /\ fullEntry # NULL THEN Append(@, entry.id) ELSE @]
  /\ UNCHANGED <<dbVars, svcVars, callVars, goVars, pendingEdit, failed, req, found, parse, appVars>>

\* c.JSON(http.StatusOK, response)
ChatRespond ==
  /\ ~panicked
  /\ chat.pc = "resolve"
  /\ chat.k > Len(chat.citedIndices)
  /\ chat' = [pc |-> "done", status |-> 200, searchErr |-> chat.searchErr,
               llmErr |-> FALSE,
               actualResponse |-> chat.actualResponse,
               sourceEntries |-> chat.sourceEntries]
  /\ UNCHANGED <<dbVars, svcVars, callVars, goVars, pendingEdit, failed, req, found, parse, appVars>>

\* the client has read the reply
ChatDone ==
  /\ ~panicked
  /\ chat.pc = "done"
  /\ chat' = Idle
  /\ UNCHANGED <<dbVars, svcVars, callVars, goVars, pendingEdit, failed, req, found, parse, appVars>>

\* ------------------------------------------- citation parsing on its own
\* answer texts and citation tokens a model reply is put together from
Answers == { Ok, <<" ">> \o Ok \o <<"\n">> }
Toks ==
  { <<"1">>, <<" ", "2">>, <<"2", " ">>, <<"3">>, <<"9">>, <<"0">>, <<"-", "1">>,
    <<"+", "1">>, <<"0", "2">>, <<"x">>, <<>>, <<"1", ".", "0">>, <<"1", " ", "2">>,
    None }

RECURSIVE Join(_)
\* the tokens separated by commas
Join(toks) ==
  IF toks = <<>> THEN <<>>
  ELSE IF Len(toks) = 1 THEN Head(toks)
  ELSE Head(toks) \o <<",">> \o Join(Tail(toks))

\* the reply: the answer, then (markers >= 1) the marker, then the tokens,
\* then (markers = 2) a second marker and one more ordinal
Compose(answer, markers, toks) ==
  answer
    \o (IF markers >= 1 THEN <<"\n">> \o Marker ELSE <<>>)
    \o <<" ">> \o Join(toks)
    \o (IF markers = 2 THEN <<"\n">> \o Marker \o <<" ", "1">> ELSE <<>>)

TokLists == UNION { [1..k -> Toks] : k \in 0..MaxToks }

\* the lists of notes a search may have offered
Retrieved ==
  { r \in UNION { [1..k -> Notes] : k \in 0..MaxNotes } :
      \A i, j \in 1..Len(r) : i # j => r[i] # r[j] }

\* llmResponse, err := h.ollamaClient.Chat(...) returns a reply while
\* similarEntries holds the notes offered
ReplyArrives(answer, markers, toks, retrieved) ==
  /\ ~panicked
  /\ parse = NULL
  /\ parse' = Some([pc |-> "in", answer |-> answer, markers |-> markers,
                     toks |-> toks, similarEntries |-> retrieved])
  /\ UNCHANGED <<dbVars, svcVars, callVars, goVars, pendingEdit, failed, req, chat, found, appVars>>

\* the citation parsing and `entry := similarEntries[idx]` for each cited
\* index (an index out of range panics)
ParseReply ==
  /\ ~panicked
  /\ parse # NULL
  /\ parse[1].pc = "in"
  /\ LET in == parse[1]
         llmResponse == Compose(in.answer, in.markers, in.toks)
         n == Len(in.similarEntries)
         p == ParseCitations(llmResponse, n)
     IN  IF \E k \in 1..Len(p.citedIndices) : p.citedIndices[k] \notin 0..(n - 1)
         THEN parse' = Some([in EXCEPT !.pc = "panic"])
         ELSE parse' = Some([pc |-> "out", answer |-> in.answer, markers |-> in.markers,
                             toks |-> in.toks, similarEntries |-> in.similarEntries,
                             llmResponse |-> llmResponse,
                             actualResponse |-> p.actualResponse,
                             citedIndices |-> p.citedIndices,
                             cited |-> [k \in 1..Len(p.citedIndices) |->
                                          in.similarEntries[p.citedIndices[k] + 1]]])
  /\ UNCHANGED <<dbVars, svcVars, callVars, goVars, pendingEdit, failed, req, chat, found, appVars>>

\* ------------------------------------------- AppResources (cmd/server)
Epochs   == 1..(MaxReloads + 1)   \* which configuration an object was made from
Nil      == 0                     \* a nil field
Handlers == {"h1"}
NoHandler == [pc |-> "idle"]
NoObjects == [pool |-> [e \in Epochs |-> "none"],
              ctx  |-> [e \in Epochs |-> "none"],
              svc  |-> [e \in Epochs |-> "none"]]

\* runServer: load the configuration, connect when it is valid, store the
\* resources in app; connected = the configuration was valid and the
\* database answered, enable = cfg.LLM.EnableVectorSearch
runServer(connected, enable) ==
  /\ app = [mu |-> "free", config |-> 1, ctx |-> 1,
            dbpool       |-> IF connected THEN 1 ELSE Nil,
            queries      |-> IF connected THEN 1 ELSE Nil,
            ollamaClient |-> IF connected THEN 1 ELSE Nil,
            vectorSvc    |-> IF connected THEN 1 ELSE Nil]
  /\ res = [pool |-> [NoObjects.pool EXCEPT ![1] = IF connected THEN "open" ELSE "none"],
            ctx  |-> [NoObjects.ctx EXCEPT ![1] = "live"],
            svc  |-> [NoObjects.svc EXCEPT ![1] =
                        IF ~connected THEN "none"
                        ELSE IF enable THEN "running" ELSE "new"]]
  /\ hnd = [h \in Handlers |-> NoHandler]

\* what the fields of app point to, and the state those objects are in
Active ==
  [config |-> app.config, dbpool |-> app.dbpool, queries |-> app.queries,
   ollamaClient |-> app.ollamaClient, vectorSvc |-> app.vectorSvc, ctx |-> app.ctx,
   pool    |-> IF app.dbpool = Nil THEN "none" ELSE res.pool[app.dbpool],
   context |-> IF app.ctx = Nil THEN "none" ELSE res.ctx[app.ctx],
   service |-> IF app.vectorSvc = Nil THEN "none" ELSE res.svc[app.vectorSvc]]

NoReloadCall == [pc |-> "idle", left |-> 0, epoch |-> 1, result |-> "none", before |-> NULL]

\* Reload is called (SaveConfig's goroutine): app.mu.Lock()
ReloadLock ==
  /\ reload.pc = "idle"
  /\ reload.left > 0
  /\ app.mu = "free"
  /\ app' = [app EXCEPT !.mu = "locked"]
  /\ reload' = [pc |-> "teardown", left |-> reload.left - 1, epoch |-> reload.epoch + 1,
                result |-> "none", before |-> Some(Active)]
  /\ UNCHANGED <<dbVars, svcVars, callVars, goVars, pendingEdit, failed, httpVars, res, hnd>>

\* Reload, before it looks at the new configuration: vectorSvc.Stop(),
\* cancel(), dbpool.Close() on the existing resources
Teardown(objs) ==
  [pool |-> [e \in Epochs |-> IF e = app.dbpool THEN "closed" ELSE objs.pool[e]],
   ctx  |-> [e \in Epochs |-> IF e = app.ctx THEN "cancelled" ELSE objs.ctx[e]],
   svc  |-> [e \in Epochs |-> IF e = app.vectorSvc /\ objs.svc[e] = "running"
                               THEN "stopped" ELSE objs.svc[e]]]

ReloadTeardown ==
  /\ reload.pc = "teardown"
  /\ res' = Teardown(res)
  /\ reload' = [reload EXCEPT !.pc = "load"]
  /\ UNCHANGED <<dbVars, svcVars, callVars, goVars, pendingEdit, failed, httpVars, app, hnd>>

\* Reload: config.Load(), Validate(), pgxpool.New, Ping; each failure returns
\* an error (the deferred Unlock runs), after cancel() / Close() on what the
\* attempt made
ReloadLoad ==
  /\ reload.pc = "load"
  /\ \E outcome \in {"invalid", "connect", "ping", "ok"} :
       LET e == reload.epoch
       IN  /\ res' = [res EXCEPT
                        !.ctx[e]  = CASE outcome = "invalid" -> "none"
                                      [] outcome = "ok"      -> "live"
                                      [] OTHER               -> "cancelled",
                        !.pool[e] = CASE outcome = "ok"   -> "open"
                                      [] outcome = "ping" -> "closed"
                                      [] OTHER            -> "none"]
           /\ IF outcome = "ok"
              THEN /\ reload' = [reload EXCEPT !.pc = "swap"]
                   /\ UNCHANGED app
              ELSE /\ reload' = [reload EXCEPT !.pc = "idle", !.result = "error"]
                   /\ app' = [app EXCEPT !.mu = "free"]
  /\ UNCHANGED <<dbVars, svcVars, callVars, goVars, pendingEdit, failed, httpVars, hnd>>

\* Reload: make the queries, client and vector service, start the service
\* when enabled, store everything in app, return nil
ReloadSwap ==
  /\ reload.pc = "swap"
  /\ LET e == reload.epoch
     IN  /\ \E enable \in BOOLEAN :
              res' = [res EXCEPT !.svc[e] = IF enable THEN "running" ELSE "new"]
         /\ app' = [mu |-> "free", config |-> e, dbpool |-> e, queries |-> e,
                    ollamaClient |-> e, vectorSvc |-> e, ctx |-> e]
  /\ reload' = [reload EXCEPT !.pc = "idle", !.result = "ok"]
  /\ UNCHANGED <<dbVars, svcVars, callVars, goVars, pendingEdit, failed, httpVars, hnd>>

\* requireResources in a route closure: 503 when app.getQueries() is nil
RequireResources(h) ==
  /\ hnd[h].pc = "idle"
  /\ app.mu = "free"
  /\ hnd' = [hnd EXCEPT ![h] = IF app.queries = Nil
                                THEN [pc |-> "503"]
                                ELSE [pc |-> "getQueries"]]
  /\ UNCHANGED <<dbVars, svcVars, callVars, goVars, pendingEdit, failed, httpVars,
                 app, res, reload>>

\* one getter: RLock, read the field, RUnlock
Getter(h, pc, field, nextPc) ==
  /\ hnd[h].pc = pc
  /\ app.mu = "free"
  /\ hnd' = [hnd EXCEPT ![h] = [ f \in (DOMAIN @) \cup {field} |->
                                   IF f = "pc" THEN nextPc
                                   ELSE IF f = field THEN app[field]
                                   ELSE @[f] ]]
  /\ UNCHANGED <<dbVars, svcVars, callVars, goVars, pendingEdit, failed, httpVars,
                 app, res, reload>>

\* the arguments of api.NewHandler, evaluated left to right
getQueries(h)       == Getter(h, "getQueries", "queries", "getConfig")
getConfig(h)        == Getter(h, "getConfig", "config", "getVectorService")
getVectorService(h) == Getter(h, "getVectorService", "vectorSvc", "getOllamaClient")
getOllamaClient(h)  == Getter(h, "getOllamaClient", "ollamaClient", "built")

\* the handler method runs and the request ends
HandlerDone(h) ==
  /\ hnd[h].pc \in {"built", "503"}
  /\ hnd' = [hnd EXCEPT ![h] = NoHandler]
  /\ UNCHANGED <<dbVars, svcVars, callVars, goVars, pendingEdit, failed, httpVars,
                 app, res, reload>>

\* ------------------------------------------------------ specifications
\* vectorservice.New: running = false, stopCh open, mutex free
InitService ==
  /\ batchSize = MaxBatch
  /\ mu = FALSE
  /\ running = FALSE
  /\ stopCh = "open"
  /\ ctxDone = FALSE
  /\ panicked = FALSE
  /\ callPc = [c \in Callers |-> "idle"]
  /\ callSlot = [c \in Callers |-> 0]
  /\ gPc = [g \in Gs |-> "none"]
  /\ ticker = [s \in Slots |-> "none"]
  /\ cyc = [g \in Gs |-> NoCyc]
  /\ ticksAfter = [s \in Slots |-> 0]
  /\ pendingEdit = [n \in Notes |-> FALSE]
  /\ failed = [n \in Notes |-> FALSE]
  /\ req = [r \in Reqs |-> Idle]
  /\ chat = Idle
  /\ found = NULL
  /\ parse = NULL
  /\ runServer(TRUE, TRUE)
  /\ reload = NoReloadCall

\* the server as runServer leaves it before it serves requests: an empty
\* entries table, the vector service constructed and started once
Started ==
  /\ mu = FALSE
  /\ running = TRUE
  /\ stopCh = "open"
  /\ ctxDone = FALSE
  /\ panicked = FALSE
  /\ callPc = [c \in Callers |-> "idle"]
  /\ callSlot = [c \in Callers |-> 0]
  /\ callsLeft = 0
  /\ startCalls = 1
  /\ gPc = [g \in Gs |-> IF g = <<"init", 1>> THEN "lock"
                          ELSE IF g = <<"loop", 1>> THEN "select" ELSE "none"]
  /\ ticker = [s \in Slots |-> IF s = 1 THEN "idle" ELSE "none"]
  /\ cyc = [g \in Gs |-> NoCyc]
  /\ ticksAfter = [s \in Slots |-> 0]
  /\ pendingEdit = [n \in Notes |-> FALSE]
  /\ failed = [n \in Notes |-> FALSE]
  /\ req = [r \in Reqs |-> Idle]
  /\ chat = Idle
  /\ found = NULL
  /\ parse = NULL
  /\ runServer(TRUE, TRUE)
  /\ reload = NoReloadCall
  /\ entries = [n \in Notes |-> NoRow]
  /\ now = 0

Init ==
  /\ Started
  /\ batchSize \in 1..MaxBatch

\* the goroutines of a started service
Running ==
  \/ \E s \in Slots : TickerFire(s) \/ LoopSelectTick(s)
  \/ \E g \in Gs : Lock(g) \/ Fetch(g) \/ Embed(g) \/ Write(g)

\* the entry handlers a client may call
Crud(users) ==
  \/ \E n \in Notes, u \in users : CreateEntry(n, u, "", "a")
  \/ \E r \in Reqs, n \in Notes, rt \in {NULL, Some("t")}, rb \in {NULL, Some("b")} :
        UpdateEntryGet(r, n, rt, rb)
  \/ \E r \in Reqs : UpdateEntry(r)
  \/ \E n \in Notes : DeleteEntry(n)

Next ==
  \/ Running
  \/ Crud(Users)

Spec == Init /\ [][Next]_vars

\* the server with the chat endpoint in use, batch size as in runServer
\* (larger than the table)
InitChat ==
  /\ Started
  /\ batchSize = MaxBatch

NextChat ==
  \/ Running
  \/ Crud({testUserID})
  \/ \E m \in Messages : ChatSearch(m)
  \/ ChatComplete \/ ChatResolve \/ ChatRespond \/ ChatDone

SpecChat == InitChat /\ [][NextChat]_vars

\* the scheduler's lifecycle over a table of notes that were never embedded
InitLife ==
  /\ InitService
  /\ entries = [n \in Notes |-> NewRow(testUserID, "t", "a", 0)]
  /\ now = 0
  /\ callsLeft = MaxCalls
  /\ startCalls = 0

NextLife ==
  \/ \E c \in Callers : CallStart(c) \/ CallStop(c) \/ StopLock(c) \/ StopBody(c)
  \/ \E s \in Slots : LoopSelectStop(s)
  \/ \E c \in Callers : StartLock(c) \/ StartCheck(c) \/ StartGoInit(c) \/ StartGoLoop(c)
  \/ CancelCtx
  \/ Running

SpecLife == InitLife /\ [][NextLife]_vars

\* rows the handlers and the sync cycle leave behind: any owner, archived or
\* not, any text, never embedded or carrying the embedding of its text
SeedRows ==
  { [exists |-> TRUE, user_id |-> u, archived |-> a, title |-> t, body_text |-> b,
     updated_at |-> 0,
     embedding_vector |-> IF v THEN Some(GenerateEmbedding(prepareTextForEmbedding(t, b)))
                          ELSE NULL,
     vectors_updated_at |-> IF v THEN Some(1) ELSE NULL] :
       u \in Users, a \in BOOLEAN, t \in Titles, b \in Bodies, v \in BOOLEAN }

\* the similarity search over a table of such rows
InitSearch ==
  /\ InitService
  /\ entries \in [Notes -> SeedRows]
  /\ now = 1
  /\ callsLeft = 0
  /\ startCalls = 0

NextSearch ==
  \E u \in Users, q \in Messages, k \in 1..MaxNotes : SearchSimilarEntries(u, q, k)

SpecSearch == InitSearch /\ [][NextSearch]_vars

\* the seed rows without a title
AskRows == { r \in SeedRows : r.title = "" }

\* the chat endpoint over a table of such rows, while a client deletes notes
InitAsk ==
  /\ InitService
  /\ entries \in [Notes -> AskRows]
  /\ now = 1
  /\ callsLeft = 0
  /\ startCalls = 0

NextAsk ==
  \/ \E m \in Messages : ChatSearch(m)
  \/ ChatComplete \/ ChatResolve \/ ChatRespond \/ ChatDone
  \/ \E n \in Notes : DeleteEntry(n)

SpecAsk == InitAsk /\ [][NextAsk]_vars

\* the citation parser over generated replies
InitParse ==
  /\ InitService
  /\ entries = [n \in Notes |-> NoRow]
  /\ now = 0
  /\ callsLeft = 0
  /\ startCalls = 0

NextParse ==
  \/ /\ parse = NULL
     /\ \E a \in Answers, m \in 0..2, toks \in TokLists, r \in Retrieved :
          ReplyArrives(a, m, toks, r)
  \/ ParseReply

SpecParse == InitParse /\ [][NextParse]_vars

\* route closures building handlers while the configuration is saved again
InitReload ==
  /\ \E connected, enable \in BOOLEAN : runServer(connected, enable)
  /\ reload = [NoReloadCall EXCEPT !.left = MaxReloads]
  /\ batchSize = MaxBatch
  /\ mu = FALSE
  /\ running = FALSE
  /\ stopCh = "open"
  /\ ctxDone = FALSE
  /\ panicked = FALSE
  /\ callPc = [c \in Callers |-> "idle"]
  /\ callSlot = [c \in Callers |-> 0]
  /\ callsLeft = 0
  /\ startCalls = 0
  /\ gPc = [g \in Gs |-> "none"]
  /\ ticker = [s \in Slots |-> "none"]
  /\ cyc = [g \in Gs |-> NoCyc]
  /\ ticksAfter = [s \in Slots |-> 0]
  /\ pendingEdit = [n \in Notes |-> FALSE]
  /\ failed = [n \in Notes |-> FALSE]
  /\ req = [r \in Reqs |-> Idle]
  /\ chat = Idle
  /\ found = NULL
  /\ parse = NULL
  /\ entries = [n \in Notes |-> NoRow]
  /\ now = 0

NextReload ==
  \/ ReloadLock \/ ReloadTeardown \/ ReloadLoad \/ ReloadSwap
  \/ \E h \in Handlers : RequireResources(h) \/ HandlerDone(h)
  \/ \E h \in Handlers : getQueries(h) \/ getConfig(h)
  \/ \E h \in Handlers : getVectorService(h) \/ getOllamaClient(h)

SpecReload == InitReload /\ [][NextReload]_vars

\* two PATCH requests in flight on a table of the owner's notes
Patchers == {"r1", "r2"}

InitPatch ==
  /\ runServer(TRUE, TRUE)
  /\ reload = NoReloadCall
  /\ batchSize = MaxBatch
  /\ mu = FALSE
  /\ running = FALSE
  /\ stopCh = "open"
  /\ ctxDone = FALSE
  /\ panicked = FALSE
  /\ callPc = [c \in Callers |-> "idle"]
  /\ callSlot = [c \in Callers |-> 0]
  /\ callsLeft = 0
  /\ startCalls = 0
  /\ gPc = [g \in Gs |-> "none"]
  /\ ticker = [s \in Slots |-> "none"]
  /\ cyc = [g \in Gs |-> NoCyc]
  /\ ticksAfter = [s \in Slots |-> 0]
  /\ pendingEdit = [n \in Notes |-> FALSE]
  /\ failed = [n \in Notes |-> FALSE]
  /\ req = [r \in Patchers |-> Idle]
  /\ chat = Idle
  /\ found = NULL
  /\ parse = NULL
  /\ entries \in [Notes -> { NewRow(testUserID, t, b, 0) : t \in Titles, b \in Bodies }]
  /\ now = 0

NextPatch ==
  \/ \E r \in Patchers, n \in Notes, rt \in {NULL, Some("t"), Some("")},
         rb \in {NULL, Some("a"), Some("b")} : UpdateEntryGet(r, n, rt, rb)
  \/ \E r \in Patchers : UpdateEntry(r)

SpecPatch == InitPatch /\ [][NextPatch]_vars

\* the scheduler left running over a table nobody edits, the database up,
\* and an Ollama that rejects some texts on every attempt and embeds all
\* others
Unembeddable == { prepareTextForEmbedding("", "b") }

Embeddable(e) == prepareTextForEmbedding(e.title, e.body_text) \notin Unembeddable

\* the fetch succeeds
FetchUp(g) ==
  /\ Fetch(g)
  /\ failed' = [n \in Notes |-> FALSE]
  /\ (\E n \in Notes : NeedsVector(entries[n], testUserID)) => gPc'[g] = "embed"

\* GenerateEmbedding fails exactly on the rejected texts
EmbedByText(g) ==
  /\ Embed(g)
  /\ gPc'[g] = "write" <=> Embeddable(cyc[g].batch[cyc[g].i])

\* the vector write succeeds
WriteUp(g) ==
  /\ Write(g)
  /\ now' # now

\* notes of the owner, each updated at a different time, none embedded yet
InitSync ==
  /\ batchSize \in 1..MaxBatch
  /\ \E at \in [Notes -> 0..(MaxNotes - 1)], body \in [Notes -> Bodies] :
       /\ \A m, n \in Notes : m # n => at[m] # at[n]
       /\ entries = [n \in Notes |-> NewRow(testUserID, "", body[n], at[n])]
  /\ now = MaxNotes - 1
  /\ mu = FALSE
  /\ running = TRUE
  /\ stopCh = "open"
  /\ ctxDone = FALSE
  /\ panicked = FALSE
  /\ callPc = [c \in Callers |-> "idle"]
  /\ callSlot = [c \in Callers |-> 0]
  /\ callsLeft = 0
  /\ startCalls = 1
  /\ gPc = [g \in Gs |-> IF g = <<"init", 1>> THEN "lock"
                          ELSE IF g = <<"loop", 1>> THEN "select" ELSE "none"]
  /\ ticker = [s \in Slots |-> IF s = 1 THEN "idle" ELSE "none"]
  /\ cyc = [g \in Gs |-> NoCyc]
  /\ ticksAfter = [s \in Slots |-> 0]
  /\ pendingEdit = [n \in Notes |-> FALSE]
  /\ failed = [n \in Notes |-> FALSE]
  /\ req = [r \in Reqs |-> Idle]
  /\ chat = Idle
  /\ found = NULL
  /\ parse = NULL
  /\ runServer(TRUE, TRUE)
  /\ reload = NoReloadCall

NextSync ==
  \/ \E s \in Slots : TickerFire(s) \/ LoopSelectTick(s)
  \/ \E g \in Gs : Lock(g) \/ FetchUp(g) \/ EmbedByText(g) \/ WriteUp(g)

\* the ticker keeps firing, every goroutine that can take a step takes it, and
\* a goroutine waiting for the mutex gets it (sync.Mutex hands the lock to a
\* waiter that has waited long)
FairSync ==
  /\ \A s \in Slots : WF_vars(TickerFire(s)) /\ WF_vars(LoopSelectTick(s))
  /\ \A g \in Gs : /\ SF_vars(Lock(g))
                    /\ WF_vars(FetchUp(g))
                    /\ WF_vars(EmbedByText(g))
                    /\ WF_vars(WriteUp(g))

SpecSync == InitSync /\ [][NextSync]_vars /\ FairSync

\* ============================================================ properties
Cycling   == { g \in Gs : InCycle(g) }
LiveLoops == { s \in Slots : gPc[<<"loop", s>>] \notin {"none", "done"} }
Launched(kind) == { s \in Slots : gPc[<<kind, s>>] # "none" }
InStart(c) == callPc[c] \in {"StartLock", "StartLocked", "StartGoInit", "StartGoLoop"}
\* a Stop() on a running scheduler has returned and no Start() followed
Stopped == ~running /\ stopCh = "closed"

\* C1: at most one goroutine of the service is inside the body of
\* updateVectors (fetch, embed, write) at any time.
C1_OneCycleAtATime == Cardinality(Cycling) <= 1

\* a cycle is in progress while another trigger waits for the mutex
C1_Witness ==
  \E g, h \in Gs : g # h /\ gPc[g] = "write" /\ gPc[h] = "lock"

\* C2: once Stop() has returned (and no Start() followed), no goroutine
\* performs the stale-batch fetch of a new cycle.
C2_NoCycleAfterStop ==
  [][Stopped => \A g \in Gs : ~(gPc[g] = "fetch" /\ gPc'[g] # "fetch")]_vars

\* C6: while no Stop() has taken effect, however many Start() calls were
\* made, at most one goroutine pair was launched; once the calls have
\* returned there is exactly one ticker loop and one initial cycle.
\* A Start() that finds the scheduler running changes nothing.
C6_StartIdempotent ==
  /\ [](stopCh = "open" =>
         /\ Cardinality({ s \in Slots : SlotUsed(s) }) <= 1
         /\ (startCalls >= 1 /\ \A c \in Callers : ~InStart(c)) =>
               /\ running
               /\ Cardinality(Launched("loop")) = 1
               /\ Cardinality(Launched("init")) = 1)
  /\ [][\A c \in Callers :
          (callPc[c] = "StartLocked" /\ running /\ callPc'[c] # callPc[c]) =>
             /\ callPc'[c] = "idle"
             /\ UNCHANGED <<running, stopCh, gPc, ticker, callSlot>>]_vars

\* two Start() calls were made and both have returned, no Stop() took effect
C6_Witness ==
  /\ stopCh = "open"
  /\ startCalls >= 2
  /\ \A c \in Callers : callPc[c] = "idle"
  /\ Cardinality(LiveLoops) = 1

\* C7: never more than one ticker loop alive, no call panics, and a Stop()
\* that completes leaves running = false.
C7_ConsistentLifecycle ==
  /\ [](Cardinality(LiveLoops) <= 1 /\ ~panicked)
  /\ [][\A c \in Callers :
          (callPc[c] = "StopLocked" /\ callPc'[c] = "idle") => ~running']_vars

\* C8: a Stop() on a stopped scheduler changes nothing, and a Stop() never
\* has to wait for a cycle in progress (it is never blocked on the mutex
\* held by updateVectors).
C8_StopIdempotentNonBlocking ==
  /\ [][\A c \in Callers :
          (callPc[c] = "StopLocked" /\ ~running /\ callPc'[c] = "idle") =>
             UNCHANGED <<running, stopCh, gPc, ticker>>]_vars
  /\ [](\A c \in Callers : callPc[c] = "StopLock" => Cycling = {})

\* C9: after the context handed to Start() is cancelled, a ticker loop
\* starts at most one more cycle before it exits.
C9_CancelStopsLoop == \A s \in Slots : ticksAfter[s] <= 1

\* ------------------------------------------------ staleness and the table
\* "stale" as the data model words it
Stale(e) ==
  \/ e.embedding_vector = NULL
  \/ e.vectors_updated_at = NULL
  \/ e.updated_at > e.vectors_updated_at[1]

BatchIds(b) == { b[k].id : k \in 1..Len(b) }

\* the notes an unbounded stale-batch fetch returns on table tbl
Eligible(tbl) ==
  UNION { BatchIds(rows) : rows \in GetEntriesNeedingVectors(tbl, testUserID, MaxNotes) }

\* C3: a note of the owner that was edited since a cycle last fetched it is
\* stale whenever a cycle performs its stale-batch fetch.
C3_EditMakesStale ==
  [][(\E g \in Gs : gPc[g] = "fetch" /\ gPc'[g] # "fetch") =>
       \A n \in Notes :
         (pendingEdit[n] /\ entries[n].user_id = testUserID /\ ~entries[n].archived)
            => Stale(entries[n])]_vars

\* C4: a fetch returns only notes of the requested owner that are not
\* archived and stale; a note whose updatedAt was just set above its sync
\* timestamp is stale and eligible; a note whose vector was just written is
\* neither.
C4_FetchReturnsStale ==
  [][/\ \A g \in Gs :
          (gPc[g] = "fetch" /\ gPc'[g] = "embed") =>
             \A n \in BatchIds(cyc'[g].batch) :
               /\ entries[n].exists
               /\ entries[n].user_id = testUserID
               /\ ~entries[n].archived
               /\ Stale(entries[n])
     /\ \A n \in Notes :
          (/\ entries[n].exists /\ entries'[n].updated_at # entries[n].updated_at
           /\ entries'[n].user_id = testUserID /\ ~entries'[n].archived
           /\ entries'[n].vectors_updated_at # NULL
           /\ entries'[n].updated_at > entries'[n].vectors_updated_at[1])
             => Stale(entries'[n]) /\ n \in Eligible(entries')
     /\ \A g \in Gs :
          (gPc[g] = "write" /\ gPc'[g] # "write" /\ entries' # entries) =>
             LET n == cyc[g].batch[cyc[g].i].id
             IN  ~Stale(entries'[n]) /\ n \notin Eligible(entries')]_vars

\* a cycle has fetched a batch that leaves out a fresh note, and another
\* note was edited after its vector was written
C4_Witness ==
  \E g \in Gs :
    /\ gPc[g] = "embed"
    /\ \E n \in Notes :
         entries[n].exists /\ ~Stale(entries[n]) /\ n \notin BatchIds(cyc[g].batch)

\* C5: a note has an embedding exactly when it has a sync timestamp.
C5_VectorIffTimestamp ==
  \A n \in Notes :
    (entries[n].embedding_vector = NULL) <=> (entries[n].vectors_updated_at = NULL)

\* a vector was written and the note was edited or soft-deleted afterwards
C5_Witness ==
  \E n \in Notes :
    /\ entries[n].embedding_vector # NULL
    /\ entries[n].vectors_updated_at # NULL
    /\ entries[n].updated_at > entries[n].vectors_updated_at[1]

\* C10: a step changes a note's embedding or sync timestamp only if it is
\* the vector write of a sync cycle for that note; Chat and the entry
\* handlers leave both columns of every note as they were.
C10_OnlySyncWritesVectors ==
  [][\A n \in Notes :
       (\/ entries'[n].embedding_vector # entries[n].embedding_vector
        \/ entries'[n].vectors_updated_at # entries[n].vectors_updated_at)
         => \E g \in Gs :
              gPc[g] = "write" /\ gPc'[g] # "write" /\ cyc[g].batch[cyc[g].i].id = n]_vars

\* Chat is resolving a citation while a note that was embedded has since
\* been soft-deleted and still carries its vector
C10_Witness ==
  /\ chat.pc = "resolve"
  /\ Len(chat.citedIndices) > 0
  /\ \E n \in Notes :
       /\ entries[n].archived
       /\ entries[n].embedding_vector # NULL
       /\ entries[n].updated_at > entries[n].vectors_updated_at[1]

\* C11: a sync cycle never writes an embedding for a note that is archived
\* at the time of the write, also when the note was soft-deleted after the
\* cycle fetched it.
C11_NoVectorForArchived ==
  [][\A g \in Gs :
       (gPc[g] = "write" /\ gPc'[g] # "write" /\ entries' # entries)
          => ~entries[cyc[g].batch[cyc[g].i].id].archived]_vars

\* the notes a similarity search for owner o may return
Candidates(o) ==
  { n \in Notes : /\ entries[n].exists /\ entries[n].user_id = o
                  /\ ~entries[n].archived /\ entries[n].embedding_vector # NULL }

\* C12: a similarity search for owner o with limit k that succeeds returns
\* at most k rows, each a distinct note of o that is not archived and has
\* an embedding, with its distance to the query vector, in ascending order
\* of that distance.
C12_NearestBounded ==
  (found # NULL /\ ~found[1].err) =>
     LET f == found[1]
         r == f.results
         q == GenerateEmbedding(f.query)
     IN  /\ Len(r) <= f.limit
         /\ \A i \in 1..Len(r) :
               /\ entries[r[i].id].exists
               /\ entries[r[i].id].user_id = f.userID
               /\ ~entries[r[i].id].archived
               /\ entries[r[i].id].embedding_vector # NULL
               /\ r[i].distance = Distance(entries[r[i].id].embedding_vector[1], q)
         /\ \A i, j \in 1..Len(r) : i < j => r[i].id # r[j].id /\ r[i].distance <= r[j].distance

\* a search whose limit cut the result short: a candidate strictly farther
\* from the query than every returned row was left out
C12_Witness ==
  /\ found # NULL
  /\ ~found[1].err
  /\ Len(found[1].results) = found[1].limit
  /\ Cardinality(Candidates(found[1].userID)) > found[1].limit
  /\ \E n \in Candidates(found[1].userID) :
       \A i \in 1..Len(found[1].results) :
         found[1].results[i].distance
           < Distance(entries[n].embedding_vector[1], GenerateEmbedding(found[1].query))

\* C13: a Chat call that has answered carries an error status exactly when
\* the completion call failed, and then it carries no answer; a failed
\* search, an empty retrieval and a malformed reply all end in status 200.
C13_ErrorIffCompletionFails ==
  chat.pc = "done" =>
     /\ (chat.status # 200) <=> chat.llmErr
     /\ chat.llmErr => (chat.status = 500 /\ "actualResponse" \notin DOMAIN chat)
     /\ ~chat.llmErr => "actualResponse" \in DOMAIN chat

\* the question embedding failed, the reply had no marker, and the call
\* answered with status 200
C13_Witness ==
  /\ chat.pc = "done"
  /\ chat.searchErr = "embed"
  /\ chat.status = 200
  /\ chat.actualResponse = Ok
  /\ chat.sourceEntries = <<>>

\* C14: a Chat call whose nearest-neighbour statement failed does not
\* answer with status 200.
C14_QueryFailureSurfaces ==
  (chat.pc = "done" /\ chat.searchErr = "query") => chat.status # 200

\* C14 (amended): a Chat call whose nearest-neighbour statement failed goes
\* on with no retrieved notes; it answers 200 with the reply and no cited
\* notes unless the completion call fails.
C14_QueryFailureDegrades ==
  (chat.pc # "idle" /\ chat.searchErr = "query") =>
     /\ chat.pc \in {"llm", "resolve"} => chat.similarEntries = <<>>
     /\ chat.pc = "resolve" => chat.citedIndices = <<>>
     /\ chat.pc = "done" =>
          /\ (chat.status = 200) <=> ~chat.llmErr
          /\ chat.status = 200 => chat.sourceEntries = <<>>

\* the similarity statement failed, the table holds a note the search
\* would have returned, and the call answered 200
C14_Witness ==
  /\ chat.pc = "done"
  /\ chat.searchErr = "query"
  /\ chat.status = 200
  /\ Candidates(testUserID) # {}

\* the integer a citation token stands for after trimming, if any
TokInt(tok) ==
  CASE tok = <<"1">> -> Some(1)
    [] tok = <<" ", "2">> -> Some(2)
    [] tok = <<"2", " ">> -> Some(2)
    [] tok = <<"3">> -> Some(3)
    [] tok = <<"9">> -> Some(9)
    [] tok = <<"0">> -> Some(0)
    [] tok = <<"-", "1">> -> Some(0 - 1)
    [] tok = <<"+", "1">> -> Some(1)
    [] tok = <<"0", "2">> -> Some(2)
    [] OTHER -> NULL

RECURSIVE Surviving(_, _)
\* the ordinals of the tokens that parse as an integer in 1..n, in order
Surviving(toks, n) ==
  IF toks = <<>> THEN <<>>
  ELSE (IF TokInt(Head(toks)) # NULL /\ TokInt(Head(toks))[1] \in 1..n
        THEN <<TokInt(Head(toks))[1]>> ELSE <<>>)
       \o Surviving(Tail(toks), n)

\* C15: for a reply with one marker and N notes offered, the parser never
\* indexes outside 0..N-1, and the cited notes are exactly retrieved[n-1]
\* for the tokens that trim and parse to an integer n in 1..N, in the order
\* of the tokens; every other token is dropped.
C15_CitationParsing ==
  (parse # NULL /\ parse[1].pc # "in" /\ parse[1].markers = 1) =>
     LET o == parse[1]
         n == Len(o.similarEntries)
         want == Surviving(o.toks, n)
     IN  /\ o.pc = "out"
         /\ o.citedIndices = [k \in 1..Len(want) |-> want[k] - 1]
         /\ \A k \in 1..Len(o.citedIndices) : o.citedIndices[k] \in 0..(n - 1)
         /\ o.cited = [k \in 1..Len(want) |-> o.similarEntries[want[k]]]

\* two notes were offered and the reply cites the second, then a token
\* that is dropped or the first
C15_Witness ==
  /\ parse # NULL
  /\ parse[1].pc = "out"
  /\ parse[1].markers = 1
  /\ Len(parse[1].similarEntries) = 2
  /\ Len(parse[1].toks) = 2
  /\ parse[1].toks[1] = <<" ", "2">>
  /\ parse[1].cited[1] = parse[1].similarEntries[2]

\* C16: a reply without the marker is returned whole as the answer, with
\* no cited notes.
C16_NoMarkerWholeAnswer ==
  (parse # NULL /\ parse[1].pc # "in" /\ parse[1].markers = 0) =>
     /\ parse[1].pc = "out"
     /\ parse[1].actualResponse = Compose(parse[1].answer, 0, parse[1].toks)
     /\ parse[1].cited = <<>>

\* a reply without a marker that starts with a blank and lists ordinals of
\* offered notes
C16_Witness ==
  /\ parse # NULL
  /\ parse[1].pc = "out"
  /\ parse[1].markers = 0
  /\ parse[1].answer = <<" ">> \o Ok \o <<"\n">>
  /\ parse[1].toks = << <<"1">>, <<" ", "2">> >>
  /\ Len(parse[1].similarEntries) = 2

\* C17: for a reply with two markers the handler does not crash and the
\* answer is the part before the first marker, trimmed.
C17_FirstSplitHonoured ==
  (parse # NULL /\ parse[1].pc # "in" /\ parse[1].markers = 2) =>
     /\ parse[1].pc = "out"
     /\ parse[1].actualResponse = TrimSpace(parse[1].answer)

\* C18: while Chat resolves its citations, a cited note that is archived
\* when it is re-fetched is skipped and the loop goes on; a note is appended
\* to the cited notes only if it is not archived at that moment; the call
\* ends with status 200.
C18_RefetchFailureSkipped ==
  [][(chat.pc = "resolve" /\ chat' # chat) =>
       /\ chat'.pc = "resolve" \/ (chat'.pc = "done" /\ chat'.status = 200)
       /\ chat'.pc = "resolve" =>
            LET id == chat.similarEntries[chat.citedIndices[chat.k] + 1].id
            IN  /\ chat'.k = chat.k + 1
                /\ entries[id].archived => chat'.sourceEntries = chat.sourceEntries
                /\ chat'.sourceEntries # chat.sourceEntries =>
                     /\ chat'.sourceEntries = Append(chat.sourceEntries, id)
                     /\ ~entries[id].archived
       /\ chat'.pc = "done" => chat'.sourceEntries = chat.sourceEntries]_vars

\* two notes were cited; the first was archived after the search returned
\* it and was skipped, the second was re-fetched and is in the cited notes
C18_Witness ==
  /\ chat.pc = "resolve"
  /\ Len(chat.citedIndices) = 2
  /\ chat.k = 3
  /\ entries[chat.similarEntries[chat.citedIndices[1] + 1].id].archived
  /\ chat.sourceEntries = <<chat.similarEntries[chat.citedIndices[2] + 1].id>>

\* C19: a trigger that arrives while a cycle is in progress is dropped: no
\* goroutine waits for the mutex of updateVectors while another goroutine
\* is inside a cycle.
C19_TriggerDropped ==
  \A g \in Gs : gPc[g] = "lock" => Cycling = {}

\* g takes a step of the range loop of updateVectors
LoopStep(g) == gPc[g] \in {"embed", "write"} /\ <<gPc[g], cyc[g]>>' # <<gPc[g], cyc[g]>>

\* C20: a failed Embed or vector write of a note that is not the last of
\* the batch moves the cycle on to the next note of the same batch, and
\* leaves the failed note's embedding and sync timestamp as they were, the
\* note still stale.
C20_FailureDoesNotAbortBatch ==
  [][\A g \in Gs :
       LoopStep(g) =>
         LET id == cyc[g].batch[cyc[g].i].id
             last == cyc[g].i = Len(cyc[g].batch)
             itemFailed == \/ gPc[g] = "embed" /\ gPc'[g] # "write"
                           \/ gPc[g] = "write" /\ entries'[id] = entries[id]
         IN  /\ ~last => /\ gPc'[g] \in {"embed", "write"}
                         /\ cyc'[g].batch = cyc[g].batch
                         /\ gPc'[g] = "embed" => cyc'[g].i = cyc[g].i + 1
                         /\ gPc'[g] = "write" => cyc'[g].i = cyc[g].i
             /\ itemFailed =>
                  /\ entries'[id].embedding_vector = entries[id].embedding_vector
                  /\ entries'[id].vectors_updated_at = entries[id].vectors_updated_at
                  /\ Stale(entries'[id])]_vars

\* the cycle is at the second note of its batch after the first note's
\* embedding or write failed
C20_Witness ==
  \E g \in Gs :
    /\ gPc[g] = "embed"
    /\ cyc[g].i = 2
    /\ entries[cyc[g].batch[1].id].embedding_vector = NULL

\* g completes a stale-batch fetch that follows a cycle in which a note failed
RetryFetch(g) ==
  /\ gPc[g] = "fetch"
  /\ gPc'[g] # "fetch"
  /\ failed' # failed

\* C21: a note whose Embed or vector write failed in a cycle (and that was
\* not archived since) is in the batch of the next cycle that fetches.
C21_FailedNoteInNextBatch ==
  [][\A g \in Gs : RetryFetch(g) =>
       \A n \in Notes :
         (failed[n] /\ ~entries[n].archived) =>
            gPc'[g] = "embed" /\ n \in BatchIds(cyc'[g].batch)]_vars

\* C21 (amended): a note whose Embed or vector write failed stays stale
\* until a cycle fetches again, and that fetch returns it unless it was
\* archived meanwhile or the batch is full of stale notes updated at least
\* as recently.
C21_FailedNoteInNextBatchIfRecent ==
  /\ [](\A n \in Notes : failed[n] => Stale(entries[n]))
  /\ [][\A g \in Gs : RetryFetch(g) =>
          \A n \in Notes :
            (failed[n] /\ ~entries[n].archived) =>
               /\ gPc'[g] = "embed"
               /\ \/ n \in BatchIds(cyc'[g].batch)
                  \/ /\ Len(cyc'[g].batch) = batchSize
                     /\ \A k \in 1..Len(cyc'[g].batch) :
                          cyc'[g].batch[k].updated_at >= entries[n].updated_at]_vars

\* a cycle is about to fetch with batch size 1 while a note that failed in
\* the previous cycle is stale and a more recently updated stale note exists
C21_Witness ==
  /\ batchSize = 1
  /\ \E g \in Gs : gPc[g] = "fetch"
  /\ \E n, m \in Notes :
       /\ failed[n]
       /\ NeedsVector(entries[n], testUserID)
       /\ NeedsVector(entries[m], testUserID)
       /\ entries[m].updated_at > entries[n].updated_at

\* the owner's notes that are stale and not archived
StaleSet == { n \in Notes : /\ entries[n].exists /\ entries[n].user_id = testUserID
                            /\ ~entries[n].archived /\ Stale(entries[n]) }

\* C22: a fetch that succeeds hands the cycle the min(B, stale) most
\* recently updated stale non-archived notes, most recent first, and ends
\* the cycle at once when there are none; the cycle then calls Embed for
\* the notes of that batch one by one in that order, each once, and writes
\* a vector only for the note it has just embedded.
C22_CycleEmbedsExactlyTheBatch ==
  [][\A g \in Gs :
       /\ (gPc[g] = "fetch" /\ gPc'[g] = "embed") =>
            LET b == cyc'[g].batch
            IN  /\ Len(b) = Min(batchSize, Cardinality(StaleSet))
                /\ cyc'[g].i = 1
                /\ \A k \in 1..Len(b) :
                     /\ b[k].id \in StaleSet
                     /\ b[k].title = entries[b[k].id].title
                     /\ b[k].body_text = entries[b[k].id].body_text
                /\ \A j, k \in 1..Len(b) :
                     j < k => b[j].id # b[k].id /\ b[j].updated_at >= b[k].updated_at
                /\ \A n \in StaleSet \ BatchIds(b) :
                     \A k \in 1..Len(b) : b[k].updated_at >= entries[n].updated_at
       /\ (gPc[g] = "fetch" /\ gPc'[g] \notin {"fetch", "embed"}) =>
            /\ gPc'[g] = AfterCycle(g)
            /\ ~mu'
            /\ entries' = entries
            /\ failed' # failed => StaleSet = {}
       /\ (gPc[g] = "embed" /\ gPc'[g] = "write") =>
            LET e == cyc[g].batch[cyc[g].i]
            IN  /\ cyc'[g].batch = cyc[g].batch /\ cyc'[g].i = cyc[g].i
                /\ cyc'[g].vec =
                     Some(GenerateEmbedding(prepareTextForEmbedding(e.title, e.body_text)))
       /\ LoopStep(g) =>
            /\ gPc'[g] = "embed" =>
                 cyc'[g].batch = cyc[g].batch /\ cyc'[g].i = cyc[g].i + 1
            /\ gPc'[g] \notin {"embed", "write"} =>
                 cyc[g].i = Len(cyc[g].batch) /\ gPc'[g] = AfterCycle(g) /\ ~mu'
            /\ \A n \in Notes :
                 entries'[n] # entries[n] =>
                   /\ gPc[g] = "write"
                   /\ n = cyc[g].batch[cyc[g].i].id
                   /\ entries'[n].embedding_vector = cyc[g].vec]_vars

\* the cycle has embedded and written the first note of a batch of two and
\* is at the second
C22_Witness ==
  \E g \in Gs :
    /\ gPc[g] = "embed"
    /\ Len(cyc[g].batch) = 2
    /\ cyc[g].i = 2
    /\ entries[cyc[g].batch[1].id].embedding_vector # NULL

\* C23: every non-archived note that is not stale carries the embedding of
\* its current title and body text.
C23_FreshMeansCurrent ==
  \A n \in Notes :
    (entries[n].exists /\ ~entries[n].archived /\ ~Stale(entries[n])) =>
       entries[n].embedding_vector =
         Some(GenerateEmbedding(prepareTextForEmbedding(entries[n].title,
                                                        entries[n].body_text)))

\* C27: the cited notes hold each offered note at most once, so never more
\* notes than were offered.
C27_CitedAtMostOnce ==
  (parse # NULL /\ parse[1].pc = "out") =>
     /\ \A j, k \in 1..Len(parse[1].cited) :
          j # k => parse[1].cited[j] # parse[1].cited[k]
     /\ Len(parse[1].cited) <= Len(parse[1].similarEntries)

\* C25: after any sequence of Start() and Stop() calls, once the calls in
\* progress have returned, running = true only while a ticker loop is alive,
\* and no Stop() has closed a closed stop channel.
C25_RunningMeansLiveLoop ==
  /\ (running /\ \A c \in Callers : callPc[c] = "idle") => LiveLoops # {}
  /\ \A c \in Callers : callPc[c] # "panicked"

\* the mutex is locked and nothing is inside a section it guards
MutexLeaked ==
  /\ mu
  /\ Cycling = {}
  /\ \A c \in Callers : callPc[c] \notin {"StartLocked", "StopLocked"}

\* C26: a cycle releases the mutex on every exit path (the mutex is never
\* left locked with nothing inside), and a Start() or Stop() call that waited
\* for the mutex and got it goes on to return to its caller.
C26_MutexReleasedCallsReturn ==
  /\ [](~MutexLeaked)
  /\ [][\A c \in Callers :
          (callPc[c] \in {"StartLocked", "StopLocked"} /\ callPc'[c] # callPc[c]) =>
             callPc'[c] \in {"idle", "StartGoInit"}]_vars

\* C28: a handler is built from a queries object, a configuration, a vector
\* service and an Ollama client of one configuration epoch.
C28_HandlerFromOneEpoch ==
  \A h \in Handlers :
    hnd[h].pc = "built" =>
      /\ hnd[h].queries = hnd[h].config
      /\ hnd[h].queries = hnd[h].vectorSvc
      /\ hnd[h].queries = hnd[h].ollamaClient

\* C29: when Reload() has returned an error, the fields of app and the objects
\* they point to are as they were when Reload() was called: the pool open, the
\* context live, the vector service running.
C29_FailedReloadKeepsResources ==
  reload.result = "error" => Active = reload.before[1]

\* C30: the UPDATE of a PATCH request leaves every field the request did not
\* supply as it is stored at that moment (so the update of a concurrent
\* request to another field survives).
C30_PatchChangesOnlySupplied ==
  [][\A r \in Patchers :
       (req[r].pc = "update" /\ req'[r].pc = "idle") =>
          LET id == req[r].id
          IN  /\ req[r].reqTitle = NULL => entries'[id].title = entries[id].title
              /\ req[r].reqBodyText = NULL =>
                    entries'[id].body_text = entries[id].body_text]_vars

\* C24: with the scheduler running and no edits, every stale note of the
\* owner that Ollama can embed is eventually embedded, whatever other notes
\* Ollama rejects.
C24_EmbeddableNoteEventuallyEmbedded ==
  \A n \in Notes :
    (NeedsVector(entries[n], testUserID) /\ Embeddable(entries[n]))
       ~> ~Stale(entries[n])

====
